---- MODULE Spec2Model ----
(***************************************************************************)
(* A model of the wildmon crate (src/src/lib.rs): the Gender type with its *)
(* symbol and randomize methods, the WildmonSettings value with its        *)
(* allow_gender mutator, and the encounter generator wildmon, stepped      *)
(* statement by statement.                                                 *)
(*                                                                         *)
(* Strings are sequences of characters (one-character strings; the two     *)
(* non-ASCII gender signs are written by their code points).  An f32 in    *)
(* [0,1] is the numerator of a fraction over Den.  The random source is    *)
(* the log of the draws made from it: every rand call appends one entry.   *)
(***************************************************************************)
EXTENDS Integers, Sequences, FiniteSets, TLC

(***************************************************************************)
(* Bounds of the model.                                                    *)
(***************************************************************************)
\* f32 values are k/Den: ratios for k in 0..Den, uniform draws for k in 0..Den-1
Den == 2
\* longest allow_genders list a caller builds
MaxAllow == 1
\* longest catalog
MaxSpecies == 2

(***************************************************************************)
(* Program constants.                                                      *)
(***************************************************************************)
\* rng.gen_range(1..=100)
LevelMin == 1
LevelMax == 100

\* pub const MISSINGNO: &'static str = "Missingno.";
MISSINGNO == <<"M", "i", "s", "s", "i", "n", "g", "n", "o", ".">>

(***************************************************************************)
(* enum Gender { Agender, Male, Female, Ratio(f32) }                       *)
(***************************************************************************)
Agender == [tag |-> "Agender"]
Male == [tag |-> "Male"]
Female == [tag |-> "Female"]
Ratio(p) == [tag |-> "Ratio", ratio |-> p]

Gender == {Agender, Male, Female} \cup {Ratio(p) : p \in 0..Den}

\* Gender::symbol
symbol(self) ==
    CASE self = Agender -> <<>>
      [] self = Male -> <<"U+2642">>
      [] self = Female -> <<"U+2640">>
      [] OTHER -> <<"?">>

\* rng.gen::<f32>(): one draw, a uniform value g/Den in [0,1)
F32Draws == 0..(Den - 1)

\* randomize drawing before it looks at the variant
randomize_eager(self, rng, g) ==
    LET drawn == Append(rng, [op |-> "gen_f32", v |-> g])
    IN IF self.tag = "Ratio"
       THEN [gender |-> IF g < self.ratio THEN Female ELSE Male, rng |-> drawn]
       ELSE [gender |-> self, rng |-> drawn]

\* randomize comparing with <= instead of <
randomize_inclusive(self, rng, g) ==
    IF self.tag = "Ratio"
    THEN [gender |-> IF g <= self.ratio THEN Female ELSE Male,
          rng |-> Append(rng, [op |-> "gen_f32", v |-> g])]
    ELSE [gender |-> self, rng |-> rng]

\* Gender::randomize: the resolved gender and the random source afterwards;
\* g is the value rng.gen() yields if it is called
randomize(self, rng, g) ==
    IF self.tag = "Ratio"
    THEN [gender |-> IF g < self.ratio THEN Female ELSE Male,
          rng |-> Append(rng, [op |-> "gen_f32", v |-> g])]
    ELSE [gender |-> self, rng |-> rng]

(***************************************************************************)
(* struct Species { names, gender, tags }                                  *)
(***************************************************************************)
MrMime == <<"M", "r", ".", " ", "M", "i", "m", "e">>
Mew == <<"M", "e", "w">>

\* the names lists of the modelled species: no name, or a first name and an
\* alternate one
NameLists == <<  <<>>, <<MrMime, Mew>>  >>

GenderList == <<Agender, Male, Female>> \o [k \in 1..(Den + 1) |-> Ratio(k - 1)]

RingLen == Len(NameLists) * Len(GenderList)

\* every names list paired with every gender, in a fixed cyclic order
RingSpecies(i) ==
    [names |-> NameLists[((i - 1) % Len(NameLists)) + 1],
     gender |-> GenderList[(((i - 1) \div Len(NameLists)) % Len(GenderList)) + 1],
     tags |-> <<>>]

\* n consecutive species of the ring
Catalog(start, n) == [k \in 1..n |-> RingSpecies(((start + k - 2) % RingLen) + 1)]

\* the catalogs wildmon is called with: the empty one and, for every length up
\* to MaxSpecies, the ring cut into catalogs of that length
Catalogs ==
    UNION {{Catalog(1 + (n * j), n) : j \in 0..((RingLen - 1) \div n)} : n \in 1..MaxSpecies}
        \cup {<<>>}

(***************************************************************************)
(* struct WildmonSettings { canon, whitespace, allow_genders }             *)
(***************************************************************************)
\* impl Default for WildmonSettings
DefaultSettings == [canon |-> TRUE, whitespace |-> FALSE, allow_genders |-> <<>>]

\* WildmonSettings::allow_gender
allow_gender(self, gender) ==
    [self EXCEPT !.allow_genders = Append(self.allow_genders, gender)]

\* a default set without Agender
DEFAULT_GENDERS_binary == <<Male, Female>>

\* static DEFAULT_GENDERS
DEFAULT_GENDERS == <<Male, Female, Agender>>

(***************************************************************************)
(* Library operations the generator uses.                                  *)
(***************************************************************************)
\* <[T]>::contains
contains(slice, x) == \E i \in 1..Len(slice) : slice[i] = x

\* the indices SliceRandom::choose may pick; 0 stands for "nothing to pick"
ChooseDraws(slice) == IF Len(slice) = 0 THEN {0} ELSE 1..Len(slice)

\* SliceRandom::choose: None (index 0) and no draw on an empty slice, else
\* the index i drawn and one draw consumed
choose(slice, rng, i) ==
    IF Len(slice) = 0
    THEN [index |-> 0, rng |-> rng]
    ELSE [index |-> i, rng |-> Append(rng, [op |-> "choose", v |-> i])]

\* rng.gen_range(1..=100): one draw
gen_range(rng, l) == [value |-> l, rng |-> Append(rng, [op |-> "gen_range", v |-> l])]

\* i32 Display
RECURSIVE Display(_)
Display(n) ==
    LET digit == <<"0", "1", "2", "3", "4", "5", "6", "7", "8", "9">>[(n % 10) + 1]
    IN IF n < 10 THEN <<digit>> ELSE Append(Display(n \div 10), digit)

\* replace stopping after the first match, as replacen(from, to, 1) does
replace_first(s, from, to) ==
    [i \in 1..Len(s) |->
        IF s[i] = from /\ (\A j \in 1..(i - 1) : s[j] # from) THEN to ELSE s[i]]

\* str::replace with one-character patterns
replace(s, from, to) == [i \in 1..Len(s) |-> IF s[i] = from THEN to ELSE s[i]]

\* format!("Wild {}{} (lv{})", name, gender.symbol(), level)
format(name, sym, level) ==
    <<"W", "i", "l", "d", " ">> \o name \o sym \o <<" ", "(", "l", "v">>
        \o Display(level) \o <<")">>

(***************************************************************************)
(* pub fn wildmon(rng, pokedex, opts) -> String, one statement at a time.  *)
(* A frame is one invocation: its arguments opts and rng, its position pc, *)
(* its locals, and mon, the value it returns.                              *)
(***************************************************************************)
\* a local not yet assigned
None == [tag |-> "None"]

NewFrame(opts) ==
    [opts |-> opts, rng |-> <<>>, pc |-> "start", species |-> 0, name |-> <<>>,
     allowed_genders |-> <<>>, gender |-> None, level |-> 0, mon |-> <<>>]

\* the empty catalog answered with the sentinel wrapped as a label
wildmon_choose_wrapped(f, dex, i) ==
    LET c == choose(dex, f.rng, i)
    IN IF c.index = 0
       THEN [f EXCEPT !.rng = c.rng, !.mon = <<"W", "i", "l", "d", " ">> \o MISSINGNO,
                      !.pc = "done"]
       ELSE [f EXCEPT !.rng = c.rng, !.species = c.index, !.pc = "name"]

\* let species = match pokedex.choose(rng) { Some(s) => s, None => return MISSINGNO.into() }
wildmon_choose(f, dex, i) ==
    LET c == choose(dex, f.rng, i)
    IN IF c.index = 0
       THEN [f EXCEPT !.rng = c.rng, !.mon = MISSINGNO, !.pc = "done"]
       ELSE [f EXCEPT !.rng = c.rng, !.species = c.index, !.pc = "name"]

\* let name = match species.names.first() { Some(name) => name, None => MISSINGNO }
wildmon_name(f, dex) ==
    LET names == dex[f.species].names
    IN [f EXCEPT !.name = IF Len(names) = 0 THEN MISSINGNO ELSE names[1],
                 !.pc = "allowed"]

\* let allowed_genders = match opts.allow_genders.len() { 0 => DEFAULT_GENDERS, _ => &opts.allow_genders }
wildmon_allowed(f) ==
    [f EXCEPT !.allowed_genders = IF Len(f.opts.allow_genders) = 0
                                  THEN DEFAULT_GENDERS
                                  ELSE f.opts.allow_genders,
              !.pc = "randomize"]

\* let mut gender = species.gender.randomize(rng);
wildmon_randomize(f, dex, g) ==
    LET r == randomize(dex[f.species].gender, f.rng, g)
    IN [f EXCEPT !.gender = r.gender, !.rng = r.rng, !.pc = "contains"]

\* if !allowed_genders.contains(&gender) { ... }
wildmon_contains(f) ==
    [f EXCEPT !.pc = IF ~contains(f.allowed_genders, f.gender) THEN "resample" ELSE "level"]

\* the replacement drawn from the default set instead of allow_genders
wildmon_resample_default(f, i) ==
    LET c == choose(DEFAULT_GENDERS, f.rng, i)
    IN [f EXCEPT !.gender = IF c.index = 0 THEN Agender ELSE DEFAULT_GENDERS[c.index],
                 !.rng = c.rng,
                 !.pc = "level"]

\* the replacement resolved once more through randomize, with a draw of its own
wildmon_resample_rerolled(f, i) ==
    LET c == choose(f.opts.allow_genders, f.rng, i)
        r == randomize(IF c.index = 0 THEN Agender ELSE f.opts.allow_genders[c.index],
                       c.rng, 0)
    IN [f EXCEPT !.gender = r.gender, !.rng = r.rng, !.pc = "level"]

\* gender = opts.allow_genders.choose(rng).copied().unwrap_or(Gender::Agender);
wildmon_resample(f, i) ==
    LET c == choose(f.opts.allow_genders, f.rng, i)
    IN [f EXCEPT !.gender = IF c.index = 0 THEN Agender ELSE f.opts.allow_genders[c.index],
                 !.rng = c.rng,
                 !.pc = "level"]

\* the underscores made to depend on canon as well
wildmon_level_canon(f, l) ==
    LET r == gen_range(f.rng, l)
        mon == format(f.name, symbol(f.gender), r.value)
    IN [f EXCEPT !.level = r.value,
                 !.rng = r.rng,
                 !.mon = IF ~f.opts.whitespace /\ f.opts.canon
                         THEN replace(mon, " ", "_") ELSE mon,
                 !.pc = "done"]

\* let level = rng.gen_range(1..=100); let mut mon = format!(...);
\* if !opts.whitespace { mon = mon.replace(" ", "_") }; mon
wildmon_level(f, l) ==
    LET r == gen_range(f.rng, l)
        mon == format(f.name, symbol(f.gender), r.value)
    IN [f EXCEPT !.level = r.value,
                 !.rng = r.rng,
                 !.mon = IF ~f.opts.whitespace THEN replace(mon, " ", "_") ELSE mon,
                 !.pc = "done"]

(***************************************************************************)
(* The state: the catalog passed as pokedex, and the invocations under     *)
(* way.  Invocations shown together are given the same catalog and the     *)
(* same values by their random sources, so they move in step.              *)
(***************************************************************************)
VARIABLES pokedex, calls

vars == <<pokedex, calls>>

Calls == DOMAIN calls

AtPc(p) == \A c \in Calls : calls[c].pc = p

\* the settings a caller starts from: canon and whitespace are plain fields
StartSettings ==
    {[DefaultSettings EXCEPT !.canon = c, !.whitespace = w] : c, w \in BOOLEAN}

Init ==
    /\ pokedex \in Catalogs
    /\ \E o \in StartSettings : calls = <<NewFrame(o)>>

\* two invocations whose settings agree on whitespace and allow_genders and
\* differ in canon
InitPair ==
    /\ pokedex \in Catalogs
    /\ \E o \in StartSettings :
          calls = <<NewFrame(o), NewFrame([o EXCEPT !.canon = ~o.canon])>>

\* the caller appends a gender to allow_genders before the call
AllowGender ==
    /\ AtPc("start")
    /\ \A c \in Calls : Len(calls[c].opts.allow_genders) < MaxAllow
    /\ \E g \in Gender :
          calls' = [c \in Calls |-> [calls[c] EXCEPT !.opts = allow_gender(@, g)]]
    /\ UNCHANGED pokedex

ChooseSpecies ==
    /\ AtPc("start")
    /\ \E i \in ChooseDraws(pokedex) :
          calls' = [c \in Calls |-> wildmon_choose(calls[c], pokedex, i)]
    /\ UNCHANGED pokedex

FirstName ==
    /\ AtPc("name")
    /\ calls' = [c \in Calls |-> wildmon_name(calls[c], pokedex)]
    /\ UNCHANGED pokedex

AllowedGenders ==
    /\ AtPc("allowed")
    /\ calls' = [c \in Calls |-> wildmon_allowed(calls[c])]
    /\ UNCHANGED pokedex

Randomize ==
    /\ AtPc("randomize")
    /\ \E g \in F32Draws :
          calls' = [c \in Calls |-> wildmon_randomize(calls[c], pokedex, g)]
    /\ UNCHANGED pokedex

Contains ==
    /\ AtPc("contains")
    /\ calls' = [c \in Calls |-> wildmon_contains(calls[c])]
    /\ UNCHANGED pokedex

Resample ==
    /\ AtPc("resample")
    /\ \E i \in ChooseDraws(calls[1].opts.allow_genders) :
          calls' = [c \in Calls |-> wildmon_resample(calls[c], i)]
    /\ UNCHANGED pokedex

Level ==
    /\ AtPc("level")
    /\ \E l \in LevelMin..LevelMax :
          calls' = [c \in Calls |-> wildmon_level(calls[c], l)]
    /\ UNCHANGED pokedex

Next ==
    \/ AllowGender
    \/ ChooseSpecies
    \/ FirstName
    \/ AllowedGenders
    \/ Randomize
    \/ Contains
    \/ Resample
    \/ Level

Spec == Init /\ [][Next]_vars

SpecPair == InitPair /\ [][Next]_vars

(***************************************************************************)
(* Vocabulary of the properties.                                           *)
(***************************************************************************)
Done(f) == f.pc = "done"

\* the species an invocation selected
Selected(f) == pokedex[f.species]

\* the set of values of a list
Range(list) == {list[i] : i \in 1..Len(list)}

\* the genders tested for membership: allow_genders, or the default set when
\* it is empty
EffectiveAllowed(f) ==
    IF f.opts.allow_genders = <<>> THEN {Male, Female, Agender}
    ELSE Range(f.opts.allow_genders)

\* the kinds of the draws made so far, oldest first
Ops(f) == [i \in 1..Len(f.rng) |-> f.rng[i].op]

\* what resolving the selected species' gender yields, read off the draw
\* that follows the species selection
Resolved(f) ==
    LET sg == Selected(f).gender
    IN IF sg.tag = "Ratio"
       THEN IF f.rng[2].v < sg.ratio THEN Female ELSE Male
       ELSE sg

\* the decimal numeral of a level
Numeral(n) ==
    LET d(k) == <<"0", "1", "2", "3", "4", "5", "6", "7", "8", "9">>[k + 1]
    IN IF n < 10 THEN <<d(n)>>
       ELSE IF n < 100 THEN <<d(n \div 10), d(n % 10)>>
       ELSE <<d(n \div 100), d((n \div 10) % 10), d(n % 10)>>

\* C1: with an empty catalog wildmon returns exactly "Missingno." whatever
\* the settings: bare, with no draw made, no gender and no level
C1_EmptyCatalogSentinel ==
    \A c \in Calls :
        pokedex = <<>> =>
            /\ calls[c].pc \in {"start", "done"}
            /\ calls[c].rng = <<>>
            /\ calls[c].gender = None
            /\ calls[c].level = 0
            /\ Done(calls[c]) =>
                  calls[c].mon = <<"M", "i", "s", "s", "i", "n", "g", "n", "o", ".">>

C1_Witness ==
    /\ pokedex = <<>>
    /\ Done(calls[1])
    /\ calls[1].opts.whitespace
    /\ ~calls[1].opts.canon
    /\ calls[1].opts.allow_genders = <<Female>>

\* C2: with a non-empty catalog wildmon returns "Wild " + name + symbol +
\* " (lv" + level + ")", name being the selected species' first name or
\* "Missingno.", level in 1..100; unchanged when whitespace is set, with every
\* space turned into an underscore otherwise
C2_LabelFormat ==
    \A c \in Calls :
        (pokedex # <<>> /\ Done(calls[c])) =>
            LET f == calls[c]
                names == Selected(f).names
                name == IF names = <<>>
                        THEN <<"M", "i", "s", "s", "i", "n", "g", "n", "o", ".">>
                        ELSE Head(names)
                label == <<"W", "i", "l", "d", " ">> \o name \o symbol(f.gender)
                            \o <<" ", "(", "l", "v">> \o Numeral(f.level) \o <<")">>
            IN /\ f.species \in 1..Len(pokedex)
               /\ f.level \in 1..100
               /\ f.opts.whitespace => f.mon = label
               /\ ~f.opts.whitespace =>
                     /\ Len(f.mon) = Len(label)
                     /\ \A i \in 1..Len(label) :
                           f.mon[i] = IF label[i] = " " THEN "_" ELSE label[i]

\* name "Mr. Mime", Agender, level 5, default settings
C2_Witness ==
    /\ Done(calls[1])
    /\ calls[1].opts = DefaultSettings
    /\ calls[1].gender = Agender
    /\ calls[1].mon = <<"W", "i", "l", "d", "_", "M", "r", ".", "_", "M", "i", "m", "e",
                        "_", "(", "l", "v", "5", ")">>

\* C3: the gender formatted into the label is never a Ratio, also when the
\* caller appended Ratio values to allow_genders
C3_RatioNeverShown ==
    \A c \in Calls :
        (pokedex # <<>> /\ Done(calls[c])) => calls[c].gender \in {Agender, Male, Female}

\* C4: randomize makes exactly one draw on Ratio(p), and returns Female when
\* the value drawn is below p and Male otherwise; on Agender, Male and Female
\* it makes no draw and returns its input
C4_RandomizeDraws ==
    [][\A c \in Calls :
          calls[c].pc = "randomize" =>
              LET sg == Selected(calls[c]).gender
                  before == calls[c].rng
                  after == calls'[c].rng
              IN IF sg.tag = "Ratio"
                 THEN /\ Len(after) = Len(before) + 1
                      /\ SubSeq(after, 1, Len(before)) = before
                      /\ after[Len(after)].op = "gen_f32"
                      /\ calls'[c].gender =
                            IF after[Len(after)].v < sg.ratio THEN Female ELSE Male
                 ELSE /\ after = before
                      /\ calls'[c].gender = sg]_vars

\* a Ratio strictly between 0 and 1 was just resolved, to Female
C4_Witness ==
    /\ calls[1].pc = "contains"
    /\ Selected(calls[1]).gender = Ratio(1)
    /\ Len(calls[1].rng) = 2
    /\ calls[1].gender = Female

\* C5: whatever the draw, Ratio(0.0) resolves to Male and Ratio(1.0) to Female
C5_RatioExtremes ==
    \A c \in Calls :
        calls[c].pc = "contains" =>
            /\ Selected(calls[c]).gender = Ratio(0) => calls[c].gender = Male
            /\ Selected(calls[c]).gender = Ratio(Den) => calls[c].gender = Female

\* Ratio(1.0) was just resolved with the largest draw
C5_Witness ==
    /\ calls[1].pc = "contains"
    /\ Selected(calls[1]).gender = Ratio(Den)
    /\ calls[1].rng[2].v = Den - 1
    /\ calls[1].gender = Female

\* C6: the final gender is in the effective allowed set: a resolved gender in
\* the set is kept, one outside it is replaced by an element of allow_genders;
\* with allow_genders = [Male] a Female species comes out Male
C6_FinalGenderAllowed ==
    \A c \in Calls :
        (pokedex # <<>> /\ Done(calls[c])) =>
            LET f == calls[c]
            IN /\ f.gender \in EffectiveAllowed(f)
               /\ Resolved(f) \in EffectiveAllowed(f) => f.gender = Resolved(f)
               /\ Resolved(f) \notin EffectiveAllowed(f) =>
                     f.gender \in Range(f.opts.allow_genders)
               /\ (f.opts.allow_genders = <<Male>> /\ Selected(f).gender = Female) =>
                     f.gender = Male

C6_Witness ==
    /\ pokedex # <<>>
    /\ Done(calls[1])
    /\ calls[1].opts.allow_genders = <<Male>>
    /\ Selected(calls[1]).gender = Female
    /\ calls[1].gender = Male

\* C7: two invocations with the same catalog, the same drawn values and
\* settings that differ only in canon return the same string and make the
\* same draws, and an invocation changes neither the catalog nor its settings
C7_CanonInert ==
    /\ [](\A c, d \in Calls :
             (/\ calls[c].opts.whitespace = calls[d].opts.whitespace
              /\ calls[c].opts.allow_genders = calls[d].opts.allow_genders)
                 => /\ calls[c].pc = calls[d].pc
                    /\ calls[c].mon = calls[d].mon
                    /\ calls[c].rng = calls[d].rng)
    /\ [][/\ pokedex' = pokedex
          /\ \A c \in Calls :
                calls[c].pc # "start" => calls'[c].opts = calls[c].opts]_vars

\* both returned a label, one with canon set and one without
C7_Witness ==
    /\ Len(calls) = 2
    /\ Done(calls[1]) /\ Done(calls[2])
    /\ calls[1].opts.canon # calls[2].opts.canon
    /\ pokedex # <<>>
    /\ Len(calls[1].rng) = 4
    /\ calls[1].mon = calls[2].mon

\* C9: on a non-empty catalog the draws are, in this order: the species
\* selection, the gender draw exactly when the species is a Ratio, the
\* resample draw exactly when the resolved gender is outside the effective
\* allowed set and allow_genders is non-empty, and last the level draw
C9_DrawOrder ==
    \A c \in Calls :
        (pokedex # <<>> /\ Done(calls[c])) =>
            LET f == calls[c]
                ratio == Selected(f).gender.tag = "Ratio"
                resample == /\ Resolved(f) \notin EffectiveAllowed(f)
                            /\ f.opts.allow_genders # <<>>
            IN /\ Ops(f) = <<"choose">>
                              \o (IF ratio THEN <<"gen_f32">> ELSE <<>>)
                              \o (IF resample THEN <<"choose">> ELSE <<>>)
                              \o <<"gen_range">>
               /\ Len(f.rng) = 2 + (IF ratio THEN 1 ELSE 0) + (IF resample THEN 1 ELSE 0)
               /\ f.rng[1].v = f.species
               /\ f.rng[Len(f.rng)].v = f.level
               /\ resample => f.gender = f.opts.allow_genders[f.rng[Len(f.rng) - 1].v]

\* all four draws were made
C9_Witness ==
    /\ Done(calls[1])
    /\ Ops(calls[1]) = <<"choose", "gen_f32", "choose", "gen_range">>

\* C10: with allow_genders empty the resolved gender is always in the default
\* set, so the resampling branch is never entered and the final gender is the
\* one randomize returned
C10_DefaultSetNeverResamples ==
    \A c \in Calls :
        calls[c].opts.allow_genders = <<>> =>
            /\ calls[c].pc # "resample"
            /\ calls[c].pc \in {"contains", "level", "done"} /\ pokedex # <<>> =>
                  /\ calls[c].gender \in {Male, Female, Agender}
                  /\ calls[c].gender = Resolved(calls[c])

C10_Witness ==
    /\ pokedex # <<>>
    /\ Done(calls[1])
    /\ calls[1].opts.allow_genders = <<>>
    /\ Selected(calls[1]).gender = Ratio(1)
    /\ calls[1].gender = Female

====
